---- MODULE Spec2Model ----
(***************************************************************************)
(* Leave-request lifecycle of the employee tool: the submission form       *)
(* (LeaveRequestForm.handleSubmit), the admin list with its approve and    *)
(* reject handlers (LeaveRequestsList), and the two store tables they      *)
(* touch (leave_requests, leave_balances).  Every await of a handler is a  *)
(* step boundary: one step runs the handler up to the await and issues the *)
(* store call, a later step is the store answering and the handler         *)
(* resuming with the answer.                                               *)
(***************************************************************************)
EXTENDS Integers, Sequences, FiniteSets, TLC

VARIABLES db, calls, now, alert, requests, listLoading, listError, fetching,
          actionLoading, user, profile, page, formData, loading, message,
          dashLoading, dashFetching, employees, empFetching, toggles, tasks,
          returned

vars == <<db, calls, now, alert, requests, listLoading, listError, fetching,
          actionLoading, user, profile, page, formData, loading, message,
          dashLoading, dashFetching, employees, empFetching, toggles, tasks,
          returned>>

listVars == <<requests, listLoading, listError, fetching, actionLoading>>
authVars == <<user, profile, page>>
formVars == <<formData, loading, message>>
\* EmployeeDashboard: its loading flag, and fetchEmployeeStats in flight
dashVars == <<dashLoading, dashFetching>>
\* EmployeesList of each admin session, and the toggles in flight
empVars == <<employees, empFetching, toggles>>
\* the asynchronous functions of AuthProvider in flight, and what signOut
\* returned last
taskVars == <<tasks, returned>>

(***************************************************************************)
(* Bounds                                                                  *)
(***************************************************************************)
\* Spec: store calls (insert / approve / reject) in flight at one time,
\* rows the leave_requests table comes to hold, and readings of the clock
\* (one per approve)
MaxCalls == 1
MaxRequests == 1
MaxTime == 1
\* the same three for the specifications of the races, SpecLedger and SpecRace
WideCalls == 2
WideRequests == 2
WideTime == 2
\* SpecAuth: asynchronous functions of one AuthProvider in flight at one time
MaxTasks == 2

\* null / undefined, in the shape of the values they stand in for
Null == "null"
Undefined == "undefined"
NoId == 0
NoTime == 0
NullStr == <<"null">>
NoProfile == [id |-> Null, user_role |-> Null, is_active |-> FALSE,
              employee_id |-> 0]

\* two admin browser sessions, each rendering <LeaveRequestsList showActions />
Sessions == {"a1", "a2"}
\* the employee whose form is modelled
Employee == "e1"

(***************************************************************************)
(* Text: a string is a sequence of characters, so that trim() is computed. *)
(***************************************************************************)
Blank == " "
EmptyStr == << >>

IsWhite(c) == c = Blank

RECURSIVE TrimStart(_)
TrimStart(s) ==
  IF s = << >> THEN << >>
  ELSE IF IsWhite(Head(s)) THEN TrimStart(Tail(s)) ELSE s

RECURSIVE TrimEnd(_)
TrimEnd(s) ==
  IF s = << >> THEN << >>
  ELSE IF IsWhite(s[Len(s)]) THEN TrimEnd(SubSeq(s, 1, Len(s) - 1)) ELSE s

\* String.prototype.trim
Trim(s) == TrimEnd(TrimStart(s))

\* JavaScript truthiness of a string-or-null value
Truthy(v) == v # NullStr /\ v # EmptyStr

(***************************************************************************)
(* Dates: the value of an <input type="date"> is "" or YYYY-MM-DD, kept    *)
(* here as << >> or <<y, m, d>>.                                           *)
(***************************************************************************)
EmptyDate == << >>

\* days from 1970-01-01 to y-m-d in the proleptic Gregorian calendar, the
\* day number new Date("YYYY-MM-DD") resolves to (date-only forms are UTC)
DayFromCivil(y, m, d) ==
  LET yy  == IF m <= 2 THEN y - 1 ELSE y
      era == yy \div 400
      yoe == yy - era * 400
      mp  == IF m > 2 THEN m - 3 ELSE m + 9
      doy == (153 * mp + 2) \div 5 + d - 1
      doe == yoe * 365 + yoe \div 4 - yoe \div 100 + doy
  IN  era * 146097 + doe - 719468

\* time units per day.  The code divides milliseconds by 1000 * 3600 * 24;
\* times are kept in seconds here (both operands scaled by 1000) so that
\* they fit the checker's 32-bit integers.
UnitsPerDay == 3600 * 24

\* Date.prototype.getTime of new Date(dateString)
GetTime(date) == DayFromCivil(date[1], date[2], date[3]) * UnitsPerDay

\* Math.ceil(a / b) for b > 0
Ceil(a, b) == -((-a) \div b)

calculateDaysOffByOne(start, end) ==
  IF start = EmptyDate \/ end = EmptyDate THEN 0
  ELSE Ceil(GetTime(end) - GetTime(start), UnitsPerDay)

calculateDays(start, end) ==
  IF start = EmptyDate \/ end = EmptyDate THEN 0
  ELSE Ceil(GetTime(end) - GetTime(start), UnitsPerDay) + 1

\* new Date(start_date).getFullYear() of a stored request
YearOf(date) == date[1]


(***************************************************************************)
(* The store.  db.leave_requests is the table in insertion order (a row's  *)
(* id is its position); db.leave_balances maps (employee_id, leave_type,   *)
(* year) to a ledger row; db.notifications is the table NotificationBell   *)
(* reads, rows of user_id, type and related_id; db.profiles maps a user id  *)
(* to its profiles row, or to NoProfile where there is none.               *)
(***************************************************************************)
BalanceKey(employee_id, leave_type, year) == <<employee_id, leave_type, year>>

\* the ledger rows provisioned for the employee (no source file writes the
\* leave_balances table; it is only read)
InitBalances ==
  (BalanceKey(Employee, "vacation", 2024) :>
       [total_days |-> 3, used_days |-> 1, remaining_days |-> 2])
  @@ (BalanceKey(Employee, "vacation", 2023) :>
       [total_days |-> 3, used_days |-> 0, remaining_days |-> 3])
  @@ (BalanceKey(Employee, "sick", 2024) :>
       [total_days |-> 2, used_days |-> 0, remaining_days |-> 2])

\* an insert that files the request under another employee, already approved
InsertRowForOther(d, payload) ==
  [d EXCEPT !.leave_requests = Append(@,
     [id               |-> Len(d.leave_requests) + 1,
      employee_id      |-> "a1",
      leave_type       |-> payload.leave_type,
      start_date       |-> payload.start_date,
      end_date         |-> payload.end_date,
      total_days       |-> payload.total_days,
      reason           |-> payload.reason,
      status           |-> "approved",
      approved_by      |-> Null,
      approved_at      |-> NoTime,
      rejection_reason |-> NullStr])]

\* the row the store adds for .insert([requestPayload]): the columns the
\* payload does not name take their defaults
InsertRow(d, payload) ==
  [d EXCEPT !.leave_requests = Append(@,
     [id               |-> Len(d.leave_requests) + 1,
      employee_id      |-> payload.employee_id,
      leave_type       |-> payload.leave_type,
      start_date       |-> payload.start_date,
      end_date         |-> payload.end_date,
      total_days       |-> payload.total_days,
      reason           |-> payload.reason,
      status           |-> payload.status,
      approved_by      |-> Null,
      approved_at      |-> NoTime,
      rejection_reason |-> NullStr])]

\* rows matched by .eq("id", requestId)
Matches(d, id) == {i \in 1..Len(d.leave_requests) : d.leave_requests[i].id = id}

\* an approve that also zeroes the days of the request
ApproveUpdateTouchesDays(d, id, payload) ==
  [d EXCEPT !.leave_requests =
     [i \in 1..Len(@) |->
        IF @[i].id = id
        THEN [@[i] EXCEPT !.status = "approved",
                          !.approved_at = payload.approved_at,
                          !.approved_by = payload.approved_by,
                          !.total_days = 0]
        ELSE @[i]]]

\* .update({status: "approved", approved_at, approved_by}).eq("id", id);
\* an undefined approved_by is dropped from the payload and leaves the column
ApproveUpdate(d, id, payload) ==
  [d EXCEPT !.leave_requests =
     [i \in 1..Len(@) |->
        IF @[i].id = id
        THEN [@[i] EXCEPT !.status = "approved",
                          !.approved_at = payload.approved_at,
                          !.approved_by = IF payload.approved_by = Undefined
                                          THEN @ ELSE payload.approved_by]
        ELSE @[i]]]

\* a reject that also credits the request's days back to its ledger row
RejectUpdateCredits(d, id, payload) ==
  [leave_requests |->
     [i \in 1..Len(d.leave_requests) |->
        IF d.leave_requests[i].id = id
        THEN [d.leave_requests[i] EXCEPT !.status = "rejected",
                          !.rejection_reason = payload.rejection_reason]
        ELSE d.leave_requests[i]],
   notifications |-> d.notifications,
   profiles |-> d.profiles,
   leave_balances |->
     [k \in DOMAIN d.leave_balances |->
        LET row  == d.leave_balances[k]
            hits == {i \in Matches(d, id) :
                       k = BalanceKey(d.leave_requests[i].employee_id,
                                      d.leave_requests[i].leave_type,
                                      YearOf(d.leave_requests[i].start_date))}
        IN  IF hits = {} THEN row
            ELSE [row EXCEPT !.used_days = 0,
                             !.remaining_days = row.total_days]]]

\* .update({status: "rejected", rejection_reason: reason}).eq("id", id)
RejectUpdate(d, id, payload) ==
  [d EXCEPT !.leave_requests =
     [i \in 1..Len(@) |->
        IF @[i].id = id
        THEN [@[i] EXCEPT !.status = "rejected",
                          !.rejection_reason = payload.rejection_reason]
        ELSE @[i]]]

\* .select("*").order("created_at", {ascending: false}), then the fields
\* the list keeps of each row that the handlers and buttons read
SelectRequests(d) ==
  [i \in 1..Len(d.leave_requests) |->
     LET row == d.leave_requests[Len(d.leave_requests) + 1 - i]
     IN  [id |-> row.id, status |-> row.status]]


(***************************************************************************)
(* Browsers: the two admin sessions and the employee's.  Each has its own  *)
(* AuthProvider (user, profile).                                           *)
(***************************************************************************)
Browsers == Sessions \cup {Employee}

ProfileOf(b) ==
  [id |-> b,
   user_role |-> IF b \in Sessions THEN "admin" ELSE "employee",
   is_active |-> TRUE,
   employee_id |-> 0]

\* what fetchProfile can yield for the user of browser b: a profiles row of
\* either role, active or not, or null
Profiles(b) ==
  {[id |-> b, user_role |-> r, is_active |-> a, employee_id |-> 0] :
     r \in {"admin", "employee"}, a \in BOOLEAN} \cup {NoProfile}

\* AuthContext value.isAdmin
isAdmin(b) == profile[b] # NoProfile /\ profile[b].user_role = "admin"

\* page[b] is what the /dashboard route of browser b shows: "loading" while
\* the AuthProvider loads, "dashboard" once Dashboard renders its children,
\* "login" after its redirect.
\* ProtectedRoute renders its children for a signed-in user
ProtectedRoute(b) == user[b] # Null

\* Dashboard renders AdminDashboard, with the list, for the admin role
ListMounted(b) == page[b] = "dashboard" /\ ProtectedRoute(b) /\ isAdmin(b)

\* and EmployeeDashboard otherwise
EmployeeMounted(b) ==
  page[b] = "dashboard" /\ ProtectedRoute(b) /\ ~isAdmin(b)

\* EmployeeDashboard renders its tabs, with the form, once its own loading
\* flag is down
FormMounted(b) == EmployeeMounted(b) /\ ~dashLoading

EmptyForm ==
  [leave_type |-> "", start_date |-> EmptyDate, end_date |-> EmptyDate,
   reason |-> EmptyStr]

\* messages of the form
MsgNone == ""
MsgSignInAgain == "Error: Please sign out and sign back in"
MsgInvalidRange == "End date must be after start date"
MsgSubmitting == "Submitting request..."
MsgTimeout == "Request timeout. Please try again."
MsgDatabaseError == "Database error"
MsgSubmitted == "Leave request submitted successfully!"

\* alerts of the admin list; alert is what the last step showed
NoAlert == ""
AlertMissingReason == "Please provide a reason for rejection."
AlertApproveError == "Error approving request"
AlertRejectError == "Error rejecting request"

Init ==
  /\ db = [leave_requests |-> << >>, leave_balances |-> InitBalances,
           notifications |-> << >>,
           profiles |-> [b \in Browsers |-> ProfileOf(b)]]
  /\ calls = << >>
  /\ now = 1
  /\ alert = NoAlert
  /\ requests = [s \in Sessions |-> << >>]
  /\ listLoading = [s \in Sessions |-> TRUE]
  /\ listError = [s \in Sessions |-> FALSE]
  /\ fetching = [s \in Sessions |-> TRUE]
  /\ actionLoading = [s \in Sessions |-> NoId]
  /\ user = [b \in Browsers |-> b]
  /\ profile = [b \in Browsers |-> ProfileOf(b)]
  /\ page = [b \in Browsers |-> "dashboard"]
  /\ formData = EmptyForm
  /\ loading = FALSE
  /\ message = MsgNone
  /\ dashLoading = FALSE
  /\ dashFetching = FALSE
  /\ employees = [s \in Sessions |-> [e \in Browsers |-> TRUE]]
  /\ empFetching = [s \in Sessions |-> FALSE]
  /\ toggles = << >>
  /\ tasks = << >>
  /\ returned = [b \in Browsers |-> "none"]

\* a store call in flight; timer is the state of handleSubmit's timeout.
\* raced is history: a decide call on the same request was applied by the
\* store while this one was in flight.
Call(kind, session, id, payload, timer) ==
  [kind |-> kind, session |-> session, id |-> id, payload |-> payload,
   timer |-> timer, raced |-> FALSE]

\* the calls in flight without the c-th
Without(c) == SubSeq(calls, 1, c - 1) \o SubSeq(calls, c + 1, Len(calls))

InsertsInFlight == {c \in 1..Len(calls) : calls[c].kind = "insert"}

\* cs with the calls on request id marked as raced
Raced(cs, id) ==
  [i \in 1..Len(cs) |->
     IF cs[i].id = id THEN [cs[i] EXCEPT !.raced = TRUE] ELSE cs[i]]

(***************************************************************************)
(* The store applies a call.                                               *)
(***************************************************************************)
StoreApply(d, call) ==
  IF call.kind = "insert" THEN InsertRow(d, call.payload)
  ELSE IF call.kind = "approve" THEN ApproveUpdate(d, call.id, call.payload)
  ELSE RejectUpdate(d, call.id, call.payload)

(***************************************************************************)
(* LeaveRequestForm                                                        *)
(***************************************************************************)
\* the inputs' onChange handlers (the inputs are disabled while loading)
SetFormData(f) ==
  /\ FormMounted(Employee)
  /\ ~loading
  /\ formData' = f
  /\ alert' = NoAlert
  /\ UNCHANGED <<db, calls, now, listVars, authVars, dashVars, empVars, taskVars, loading, message>>

\* handleSubmit up to its await of the insert.  The submit button is
\* disabled while loading or without user and profile.
handleSubmit ==
  /\ FormMounted(Employee)
  /\ ~loading /\ user[Employee] # Null /\ profile[Employee] # NoProfile
  /\ LET totalDays == calculateDays(formData.start_date, formData.end_date)
     IN  IF user[Employee] = Null \/ profile[Employee] = NoProfile
         THEN /\ message' = MsgSignInAgain
              /\ loading' = FALSE
              /\ calls' = calls
         ELSE IF totalDays <= 0
         THEN /\ message' = MsgInvalidRange
              /\ loading' = FALSE
              /\ calls' = calls
         ELSE /\ message' = MsgSubmitting
              /\ loading' = TRUE
              /\ calls' = Append(calls,
                   Call("insert", Employee, NoId,
                        [employee_id |-> user[Employee],
                         leave_type  |-> formData.leave_type,
                         start_date  |-> formData.start_date,
                         end_date    |-> formData.end_date,
                         total_days  |-> totalDays,
                         reason      |-> Trim(formData.reason),
                         status      |-> "pending"],
                        "armed"))
  /\ alert' = NoAlert
  /\ UNCHANGED <<db, now, listVars, authVars, dashVars, empVars, taskVars, formData>>

\* the 30 second timer of handleSubmit fires before the insert is answered
SubmitTimeout(c) ==
  /\ c \in 1..Len(calls)
  /\ calls[c].kind = "insert" /\ calls[c].timer = "armed"
  /\ loading' = FALSE
  /\ message' = MsgTimeout
  /\ calls' = [calls EXCEPT ![c].timer = "fired"]
  /\ alert' = NoAlert
  /\ UNCHANGED <<db, now, listVars, authVars, dashVars, empVars, taskVars, formData>>

\* the store answers the insert and handleSubmit resumes after its await
SubmitResolve(c, err) ==
  /\ c \in 1..Len(calls)
  /\ calls[c].kind = "insert"
  /\ db' = IF err THEN db ELSE StoreApply(db, calls[c])
  /\ calls' = Without(c)
  /\ IF err
     THEN /\ message' = MsgDatabaseError
          /\ formData' = formData
     ELSE /\ message' = MsgSubmitted
          /\ formData' = EmptyForm
  /\ loading' = FALSE
  /\ alert' = NoAlert
  /\ UNCHANGED <<now, listVars, authVars, dashVars, empVars, taskVars>>

(***************************************************************************)
(* LeaveRequestsList                                                       *)
(***************************************************************************)
\* fetchLeaveRequests is called: setError(null) and the select is issued
StartFetch(s) ==
  /\ listError' = [listError EXCEPT ![s] = FALSE]
  /\ fetching' = [fetching EXCEPT ![s] = TRUE]

\* the store answers the select and fetchLeaveRequests resumes
FetchReturn(s, err) ==
  /\ fetching[s]
  /\ fetching' = [fetching EXCEPT ![s] = FALSE]
  /\ listError' = [listError EXCEPT ![s] = err]
  /\ requests' = [requests EXCEPT ![s] = IF err THEN << >> ELSE SelectRequests(db)]
  /\ listLoading' = [listLoading EXCEPT ![s] = FALSE]
  /\ alert' = NoAlert
  /\ UNCHANGED <<db, calls, now, actionLoading, authVars, dashVars, empVars, taskVars, formVars>>

\* the "Try Again" button of the error view
TryAgain(s) ==
  /\ ListMounted(s)
  /\ ~listLoading[s] /\ listError[s] /\ ~fetching[s]
  /\ StartFetch(s)
  /\ alert' = NoAlert
  /\ UNCHANGED <<db, calls, now, requests, listLoading, actionLoading,
                 authVars, dashVars, empVars, taskVars, formVars>>

\* the Approve / Reject buttons of row id are rendered and enabled
ButtonsEnabled(s, id) ==
  /\ ListMounted(s)
  /\ ~listLoading[s] /\ ~listError[s]
  /\ isAdmin(s)
  /\ \E i \in 1..Len(requests[s]) :
        requests[s][i].id = id /\ requests[s][i].status = "pending"
  /\ actionLoading[s] # id

\* handleApprove up to its await of the update; u is the id getUser yields
handleApprove(s, id, u) ==
  /\ actionLoading' = [actionLoading EXCEPT ![s] = id]
  /\ calls' = Append(calls,
       Call("approve", s, id, [approved_at |-> now, approved_by |-> u], "none"))
  /\ now' = now + 1
  /\ alert' = NoAlert
  /\ UNCHANGED <<db, requests, listLoading, listError, fetching, authVars, dashVars, empVars, taskVars, formVars>>

\* the Approve button's onClick
ApproveClick(s, id, u) == ButtonsEnabled(s, id) /\ handleApprove(s, id, u)

\* a guard that lets a whitespace-only reason through
ReasonMissingNoTrim(reason) == ~Truthy(reason)

\* handleReject's guard: !reason || reason.trim() === ""
ReasonMissing(reason) == ~Truthy(reason) \/ Trim(reason) = EmptyStr

\* handleReject up to its await of the update
handleReject(s, id, reason) ==
  IF ReasonMissing(reason)
  THEN /\ alert' = AlertMissingReason
       /\ UNCHANGED <<db, calls, now, listVars, authVars, dashVars, empVars, taskVars, formVars>>
  ELSE /\ actionLoading' = [actionLoading EXCEPT ![s] = id]
       /\ calls' = Append(calls,
            Call("reject", s, id, [rejection_reason |-> reason], "none"))
       /\ alert' = NoAlert
       /\ UNCHANGED <<db, now, requests, listLoading, listError, fetching,
                      authVars, dashVars, empVars, taskVars, formVars>>

\* the Reject button's onClick: prompt(), then handleReject if the answer
\* is truthy
RejectClick(s, id, answer) ==
  /\ ButtonsEnabled(s, id)
  /\ IF Truthy(answer)
     THEN handleReject(s, id, answer)
     ELSE /\ alert' = NoAlert
          /\ UNCHANGED <<db, calls, now, listVars, authVars, dashVars, empVars, taskVars, formVars>>

\* the store answers the update and handleApprove / handleReject resumes:
\* alert on error, else refresh the list; finally setActionLoading(null)
DecideResolve(c, err) ==
  /\ c \in 1..Len(calls)
  /\ calls[c].kind \in {"approve", "reject"}
  /\ db' = IF err THEN db ELSE StoreApply(db, calls[c])
  /\ calls' = IF err THEN Without(c) ELSE Raced(Without(c), calls[c].id)
  /\ LET s == calls[c].session
     IN  /\ actionLoading' = [actionLoading EXCEPT ![s] = NoId]
         /\ IF err
            THEN /\ alert' = IF calls[c].kind = "approve"
                             THEN AlertApproveError ELSE AlertRejectError
                 /\ UNCHANGED <<listError, fetching>>
            ELSE /\ StartFetch(s)
                 /\ alert' = NoAlert
  /\ UNCHANGED <<now, requests, listLoading, authVars, dashVars, empVars, taskVars, formVars>>

(***************************************************************************)
(* EmployeesList.  employees[s][e] is is_active of employee e as the list  *)
(* of session s fetched it.                                                *)
(***************************************************************************)
\* .update({is_active}).eq("id", employeeId) on profiles
ToggleUpdate(d, employeeId, payload) ==
  [d EXCEPT !.profiles =
     [e \in DOMAIN @ |->
        IF e = employeeId /\ @[e] # NoProfile
        THEN [@[e] EXCEPT !.is_active = payload.is_active]
        ELSE @[e]]]

\* toggleEmployeeStatus(employeeId, currentStatus) up to its await, called
\* by the Activate / Deactivate button with the status the list shows
toggleEmployeeStatus(s, employeeId, currentStatus) ==
  /\ ListMounted(s)
  /\ toggles' = Append(toggles,
       [session |-> s, id |-> employeeId,
        payload |-> [is_active |-> ~currentStatus]])
  /\ alert' = NoAlert
  /\ UNCHANGED <<db, calls, now, listVars, authVars, formVars, dashVars,
                 employees, empFetching, taskVars>>

\* the store answers the update and toggleEmployeeStatus resumes: without
\* error it calls fetchEmployees
ToggleResolve(t, err) ==
  /\ t \in 1..Len(toggles)
  /\ db' = IF err THEN db
           ELSE ToggleUpdate(db, toggles[t].id, toggles[t].payload)
  /\ toggles' = SubSeq(toggles, 1, t - 1) \o SubSeq(toggles, t + 1, Len(toggles))
  /\ empFetching' = IF err THEN empFetching
                    ELSE [empFetching EXCEPT ![toggles[t].session] = TRUE]
  /\ alert' = NoAlert
  /\ UNCHANGED <<calls, now, listVars, authVars, formVars, dashVars,
                 employees, taskVars>>

\* the store answers the select of fetchEmployees
EmployeesReturn(s, err) ==
  /\ empFetching[s]
  /\ empFetching' = [empFetching EXCEPT ![s] = FALSE]
  /\ employees' = IF err THEN employees
                  ELSE [employees EXCEPT
                          ![s] = [e \in Browsers |-> db.profiles[e].is_active]]
  /\ alert' = NoAlert
  /\ UNCHANGED <<db, calls, now, listVars, authVars, formVars, dashVars,
                 toggles, taskVars>>

(***************************************************************************)
(* AuthProvider and Dashboard                                              *)
(***************************************************************************)
\* the browsers before their AuthProvider has loaded
InitGuard ==
  /\ \E ps \in [Browsers -> UNION {Profiles(b) \ {NoProfile} : b \in Browsers}] :
       /\ \A b \in Browsers : ps[b].id = b
       /\ ps["a2"] = ProfileOf("a2")
       /\ db = [leave_requests |-> << >>, leave_balances |-> InitBalances,
                notifications |-> << >>, profiles |-> ps]
  /\ calls = << >>
  /\ now = 1
  /\ alert = NoAlert
  /\ requests = [s \in Sessions |-> << >>]
  /\ listLoading = [s \in Sessions |-> TRUE]
  /\ listError = [s \in Sessions |-> FALSE]
  /\ fetching = [s \in Sessions |-> FALSE]
  /\ actionLoading = [s \in Sessions |-> NoId]
  /\ user = [b \in Browsers |-> Null]
  /\ profile = [b \in Browsers |-> NoProfile]
  /\ page = [b \in Browsers |-> "loading"]
  /\ formData = EmptyForm
  /\ loading = FALSE
  /\ message = MsgNone
  /\ dashLoading = TRUE
  /\ dashFetching = FALSE
  /\ employees = [s \in Sessions |-> [e \in Browsers |-> db.profiles[e].is_active]]
  /\ empFetching = [s \in Sessions |-> FALSE]
  /\ toggles = << >>
  /\ tasks = << >>
  /\ returned = [b \in Browsers |-> "none"]

\* EmployeeDashboard mounts in the employee's browser: its effect calls
\* fetchEmployeeStats, which returns at once without a profile
MountEmployeeDashboard(p) ==
  /\ dashLoading' = TRUE
  /\ dashFetching' = (p # NoProfile)

\* the selects of fetchEmployeeStats are answered (or throw) and its
\* finally runs setLoading(false)
StatsReturn ==
  /\ dashFetching
  /\ dashFetching' = FALSE
  /\ dashLoading' = FALSE
  /\ alert' = NoAlert
  /\ UNCHANGED <<db, calls, now, listVars, authVars, formVars, empVars, taskVars>>

\* getInitialSession finds the session of user b, fetchProfile yields p and
\* setLoading(false) lets Dashboard render: for the admin role the list
\* mounts and its effect calls fetchLeaveRequests, otherwise
\* EmployeeDashboard mounts
AuthLoaded(b, p) ==
  /\ page[b] = "loading"
  /\ user' = [user EXCEPT ![b] = b]
  /\ profile' = [profile EXCEPT ![b] = p]
  /\ page' = [page EXCEPT ![b] = "dashboard"]
  /\ IF b \in Sessions /\ p # NoProfile /\ p.user_role = "admin"
     THEN StartFetch(b)
     ELSE UNCHANGED <<listError, fetching>>
  /\ IF b = Employee /\ ~(p # NoProfile /\ p.user_role = "admin")
     THEN MountEmployeeDashboard(p)
     ELSE UNCHANGED dashVars
  /\ alert' = NoAlert
  /\ UNCHANGED <<db, calls, now, requests, listLoading, actionLoading, formVars,
                 empVars, taskVars>>

\* the effect of Dashboard: an inactive profile is sent to /auth/login
Redirect(b) ==
  /\ page[b] = "dashboard"
  /\ profile[b] # NoProfile /\ ~profile[b].is_active
  /\ page' = [page EXCEPT ![b] = "login"]
  /\ alert' = NoAlert
  /\ UNCHANGED <<db, calls, now, listVars, user, profile, formVars,
                 dashVars, empVars, taskVars>>

\* the onAuthStateChange callback with no session: setUser(null),
\* setProfile(null), setLoading(false)
SignedOut(b) ==
  /\ user[b] # Null
  /\ user' = [user EXCEPT ![b] = Null]
  /\ profile' = [profile EXCEPT ![b] = NoProfile]
  /\ page' = [page EXCEPT ![b] = IF @ = "loading" THEN "dashboard" ELSE @]
  /\ UNCHANGED dashVars
  /\ alert' = NoAlert
  /\ UNCHANGED <<db, calls, now, listVars, formVars, empVars, taskVars>>

(***************************************************************************)
(* AuthProvider, one await at a time.  A task is one of its asynchronous   *)
(* functions in flight: getInitialSession ("init"), the onAuthStateChange  *)
(* callback ("change"), refreshProfile ("refresh") or signOut ("signout"), *)
(* at the await named by stage; uid is the argument of fetchProfile and    *)
(* basic the basicProfile of createBasicProfile.                           *)
(***************************************************************************)
Task(b, kind, stage, uid, basic) ==
  [browser |-> b, kind |-> kind, stage |-> stage, uid |-> uid, basic |-> basic]

TasksWithout(t) == SubSeq(tasks, 1, t - 1) \o SubSeq(tasks, t + 1, Len(tasks))

\* the browser before getSession is answered: getInitialSession has been
\* called by the effect of AuthProvider.  The user has a profiles row or
\* has none yet.
InitAuth ==
  /\ \E row \in {ProfileOf("a1"), NoProfile} :
       db = [leave_requests |-> << >>, leave_balances |-> InitBalances,
             notifications |-> << >>,
             profiles |-> [b \in Browsers |->
                             IF b = "a1" THEN row ELSE ProfileOf(b)]]
  /\ calls = << >>
  /\ now = 1
  /\ alert = NoAlert
  /\ requests = [s \in Sessions |-> << >>]
  /\ listLoading = [s \in Sessions |-> TRUE]
  /\ listError = [s \in Sessions |-> FALSE]
  /\ fetching = [s \in Sessions |-> FALSE]
  /\ actionLoading = [s \in Sessions |-> NoId]
  /\ user = [b \in Browsers |-> Null]
  /\ profile = [b \in Browsers |-> NoProfile]
  /\ page = [b \in Browsers |-> "loading"]
  /\ formData = EmptyForm
  /\ loading = FALSE
  /\ message = MsgNone
  /\ dashLoading = TRUE
  /\ dashFetching = FALSE
  /\ employees = [s \in Sessions |-> [e \in Browsers |-> TRUE]]
  /\ empFetching = [s \in Sessions |-> FALSE]
  /\ toggles = << >>
  /\ tasks = <<Task("a1", "init", "session", Null, NoProfile)>>
  /\ returned = [b \in Browsers |-> "none"]

\* setLoading(false)
LoadingDone(b) == [page EXCEPT ![b] = IF @ = "loading" THEN "dashboard" ELSE @]

\* what the new user, profile and page make Dashboard mount in an admin
\* session: the list, whose effect calls fetchLeaveRequests
Renders(b) ==
  IF b \in Sessions /\ ListMounted(b)' /\ ~ListMounted(b)
  THEN StartFetch(b)
  ELSE UNCHANGED <<listError, fetching>>

\* createBasicProfile's basicProfile for user u at time t
\* (employee_id is EMP + Date.now()), with the role of an admin
createBasicProfileAsAdmin(u, t) ==
  [id |-> u, user_role |-> "admin", is_active |-> TRUE, employee_id |-> t]

\* createBasicProfile's basicProfile for user u at time t
\* (employee_id is EMP + Date.now())
createBasicProfile(u, t) ==
  [id |-> u, user_role |-> "employee", is_active |-> TRUE, employee_id |-> t]

\* fetchProfile returns p to the function of task t, which calls
\* setProfile(p) and, but for refreshProfile, setLoading(false)
Finish(t, p) ==
  \E b \in {tasks[t].browser} :
    /\ profile' = [profile EXCEPT ![b] = p]
    /\ page' = IF tasks[t].kind = "refresh" THEN page ELSE LoadingDone(b)
    /\ tasks' = TasksWithout(t)
    /\ user' = user
    /\ Renders(b)

\* getSession is answered to getInitialSession: with an error, with no
\* session, with the session of the user, or it throws
SessionAnswer(t, outcome) ==
  /\ t \in 1..Len(tasks) /\ tasks[t].stage = "session"
  /\ \E b \in {tasks[t].browser} :
       /\ IF outcome = "user"
          THEN /\ user' = [user EXCEPT ![b] = b]
               /\ tasks' = [tasks EXCEPT ![t].stage = "select", ![t].uid = b]
               /\ UNCHANGED <<profile, page>>
          ELSE /\ page' = LoadingDone(b)
               /\ tasks' = TasksWithout(t)
               /\ UNCHANGED <<user, profile>>
       /\ Renders(b)
  /\ alert' = NoAlert
  /\ UNCHANGED <<db, calls, now, requests, listLoading, actionLoading,
                 formVars, dashVars, empVars, returned>>

\* the onAuthStateChange callback with the session of the user: setUser,
\* then fetchProfile is awaited
SignedIn(b) ==
  /\ user' = [user EXCEPT ![b] = b]
  /\ tasks' = Append(tasks, Task(b, "change", "select", b, NoProfile))
  /\ UNCHANGED <<profile, page>>
  /\ Renders(b)
  /\ alert' = NoAlert
  /\ UNCHANGED <<db, calls, now, requests, listLoading, actionLoading,
                 formVars, dashVars, empVars, returned>>

\* refreshProfile: with a user, fetchProfile(user.id) is awaited
refreshProfile(b) ==
  /\ user[b] # Null
  /\ tasks' = Append(tasks, Task(b, "refresh", "select", user[b], NoProfile))
  /\ alert' = NoAlert
  /\ UNCHANGED <<db, calls, now, listVars, authVars, formVars, dashVars,
                 empVars, returned>>

\* the select of fetchProfile is answered: without error ("data": the row
\* of uid if there is one), with the error of a missing table, of a denied
\* permission or another, or it throws
SelectAnswer(t, outcome) ==
  /\ t \in 1..Len(tasks) /\ tasks[t].stage = "select"
  /\ LET row == db.profiles[tasks[t].uid]
     IN  IF outcome = "data" /\ row # NoProfile
         THEN Finish(t, row)
         ELSE IF outcome \in {"data", "permission"}
         THEN /\ tasks' = [tasks EXCEPT ![t].stage = "getUser"]
              /\ UNCHANGED <<user, profile, page, listError, fetching>>
         ELSE Finish(t, NoProfile)
  /\ alert' = NoAlert
  /\ UNCHANGED <<db, calls, now, requests, listLoading, actionLoading,
                 formVars, dashVars, empVars, returned>>

\* getUser is answered to fetchProfile: with the current user u, and
\* createBasicProfile issues its insert, or with none (or it throws)
GetUserAnswer(t, u) ==
  /\ t \in 1..Len(tasks) /\ tasks[t].stage = "getUser"
  /\ IF u # Null
     THEN /\ tasks' = [tasks EXCEPT ![t].stage = "insert",
                                    ![t].basic = createBasicProfile(u, now)]
          /\ now' = now + 1
          /\ UNCHANGED <<user, profile, page, listError, fetching>>
     ELSE /\ Finish(t, NoProfile)
          /\ now' = now
  /\ alert' = NoAlert
  /\ UNCHANGED <<db, calls, requests, listLoading, actionLoading,
                 formVars, dashVars, empVars, returned>>

\* the insert of createBasicProfile is answered: the row is stored and
\* returned ("ok", for an id that has no row), or an error is returned and
\* the basicProfile is handed back as it is, or the insert throws
InsertAnswer(t, outcome) ==
  /\ t \in 1..Len(tasks) /\ tasks[t].stage = "insert"
  /\ LET basic == tasks[t].basic
     IN  IF outcome = "ok"
         THEN /\ db.profiles[basic.id] = NoProfile
              /\ db' = [db EXCEPT !.profiles[basic.id] = basic]
              /\ Finish(t, basic)
         ELSE /\ db' = db
              /\ Finish(t, IF outcome = "error" THEN basic ELSE NoProfile)
  /\ alert' = NoAlert
  /\ UNCHANGED <<calls, now, requests, listLoading, actionLoading,
                 formVars, dashVars, empVars, returned>>

\* signOut up to its await of supabase.auth.signOut
signOut(b) ==
  /\ tasks' = Append(tasks, Task(b, "signout", "signOut", Null, NoProfile))
  /\ alert' = NoAlert
  /\ UNCHANGED <<db, calls, now, listVars, authVars, formVars, dashVars,
                 empVars, returned>>

\* a signOut that clears the session whatever is answered
SignOutSucceededAlways(outcome) == TRUE

\* if (!error)
SignOutSucceeded(outcome) == outcome = "ok"

\* supabase.auth.signOut is answered: without error, with an error, or it
\* throws; signOut returns {error}
SignOutAnswer(t, outcome) ==
  /\ t \in 1..Len(tasks) /\ tasks[t].stage = "signOut"
  /\ LET b == tasks[t].browser
     IN  /\ IF outcome # "throws" /\ SignOutSucceeded(outcome)
            THEN /\ user' = [user EXCEPT ![b] = Null]
                 /\ profile' = [profile EXCEPT ![b] = NoProfile]
            ELSE UNCHANGED <<user, profile>>
         /\ returned' = [returned EXCEPT ![b] = IF outcome = "ok"
                                                 THEN "ok" ELSE "error"]
  /\ tasks' = TasksWithout(t)
  /\ alert' = NoAlert
  /\ UNCHANGED <<db, calls, now, listVars, page, formVars, dashVars, empVars>>

(***************************************************************************)
(* Inputs                                                                  *)
(***************************************************************************)
Feb28 == <<2024, 2, 28>>
Feb29 == <<2024, 2, 29>>
Mar01 == <<2024, 3, 1>>
Dec31 == <<2023, 12, 31>>
Jan01 == <<2024, 1, 1>>

\* the forms the employee fills in while the admins decide
Forms ==
  { [leave_type |-> "vacation", start_date |-> Feb28, end_date |-> Feb29,
     reason |-> <<"t", "r", "i", "p">>],
    [leave_type |-> "vacation", start_date |-> Feb28, end_date |-> Mar01,
     reason |-> <<"t", "r", "i", "p">>] }

\* the dates and forms of SpecForm.  The reason textarea is `required`,
\* which a value of white space alone satisfies.
Dates == {EmptyDate, Feb28, Mar01, Dec31, Jan01}
FormInputs ==
  [leave_type : {"vacation"}, start_date : Dates, end_date : Dates,
   reason : {<<Blank, "o", "k", Blank>>}]
  \cup {[leave_type |-> "vacation", start_date |-> Feb28, end_date |-> Mar01,
          reason |-> <<Blank, Blank>>]}

\* what an admin answers to prompt("Please provide a reason for rejection:")
PromptAnswers == {NullStr, EmptyStr, <<Blank, Blank>>, <<"n", "o">>}

\* the bounds: fewer than k calls in flight, fewer than n rows stored or
\* being inserted, the clock read fewer than t times
CallsBelow(k) == Len(calls) < k
RowsBelow(n) == Len(db.leave_requests) + Cardinality(InsertsInFlight) < n
ClockBelow(t) == now <= t

\* the employee's form, filled in with the forms of F
FormNext(F, n, k) ==
  \/ \E f \in F : SetFormData(f)
  \/ CallsBelow(k) /\ RowsBelow(n) /\ handleSubmit
  \/ \E c \in 1..k, err \in BOOLEAN : SubmitResolve(c, err)

\* the lists of the admin sessions of S
AdminNext(S, n, k, t) ==
  \/ \E s \in S, err \in BOOLEAN : FetchReturn(s, err)
  \/ \E s \in S : TryAgain(s)
  \/ \E s \in S, id \in 1..n :
        CallsBelow(k) /\ ClockBelow(t) /\ ApproveClick(s, id, user[s])
  \/ \E s \in S, id \in 1..n, a \in PromptAnswers :
        CallsBelow(k) /\ RejectClick(s, id, a)
  \/ \E c \in 1..k, err \in BOOLEAN : DecideResolve(c, err)

\* one employee and one admin
Next ==
  \/ FormNext(Forms, MaxRequests, MaxCalls)
  \/ AdminNext({"a1"}, MaxRequests, MaxCalls, MaxTime)

Spec == Init /\ [][Next]_vars

\* one employee and one admin, with two requests and two calls in flight
NextLedger ==
  \/ FormNext(Forms, WideRequests, WideCalls)
  \/ AdminNext({"a1"}, WideRequests, WideCalls, WideTime)

SpecLedger == Init /\ [][NextLedger]_vars

\* one employee and two admins who decide the same request
NextRace ==
  \/ FormNext(Forms, MaxRequests, WideCalls)
  \/ AdminNext(Sessions, MaxRequests, WideCalls, WideTime)

SpecRace == Init /\ [][NextRace]_vars

\* the employee alone, with every date, and the timer of handleSubmit
NextForm ==
  \/ FormNext(FormInputs, MaxRequests, MaxCalls)
  \/ \E c \in 1..MaxCalls : SubmitTimeout(c)

SpecForm == Init /\ [][NextForm]_vars

\* one employee and one admin whose AuthProviders load their profiles row,
\* whatever it holds, or null when fetchProfile fails
NextGuard ==
  \/ \E b \in {"a1", Employee} : \E p \in {db.profiles[b], NoProfile} :
        AuthLoaded(b, p)
  \/ StatsReturn
  \/ \E b \in {"a1", Employee} : Redirect(b)
  \/ \E b \in {"a1", Employee} : SignedOut(b)
  \/ FormNext(Forms, MaxRequests, MaxCalls)
  \/ AdminNext({"a1"}, MaxRequests, MaxCalls, MaxTime)

SpecGuard == InitGuard /\ [][NextGuard]_vars

\* the employee's browser from the loading of its AuthProvider on
NextDash ==
  \/ \E p \in {db.profiles[Employee], NoProfile} : AuthLoaded(Employee, p)
  \/ StatsReturn
  \/ Redirect(Employee)
  \/ FormNext(Forms, MaxRequests, MaxCalls)

\* every call to the store is answered, and effects and navigations run
FairDash ==
  /\ WF_vars(\E p \in {db.profiles[Employee], NoProfile} :
               AuthLoaded(Employee, p))
  /\ WF_vars(StatsReturn)
  /\ WF_vars(Redirect(Employee))
  /\ WF_vars(\E c \in 1..MaxCalls, err \in BOOLEAN : SubmitResolve(c, err))

SpecDash == InitGuard /\ [][NextDash]_vars /\ FairDash

\* two admins who activate and deactivate employees
NextToggle ==
  \/ \E s \in Sessions, e \in {Employee, "a2"} :
        Len(toggles) < WideCalls /\ toggleEmployeeStatus(s, e, employees[s][e])
  \/ \E t \in 1..WideCalls, err \in BOOLEAN : ToggleResolve(t, err)
  \/ \E s \in Sessions, err \in BOOLEAN : EmployeesReturn(s, err)

SpecToggle == Init /\ [][NextToggle]_vars

\* the AuthProvider of one browser
NextAuth ==
  \/ \E t \in 1..MaxTasks, o \in {"error", "none", "user", "throws"} :
        SessionAnswer(t, o)
  \/ Len(tasks) < MaxTasks /\ SignedIn("a1")
  \/ SignedOut("a1")
  \/ Len(tasks) < MaxTasks /\ refreshProfile("a1")
  \/ \E t \in 1..MaxTasks,
          o \in {"data", "table", "permission", "other", "throws"} :
        SelectAnswer(t, o)
  \/ \E t \in 1..MaxTasks, u \in {"a1", Null} :
        ClockBelow(WideTime) /\ GetUserAnswer(t, u)
  \/ \E t \in 1..MaxTasks, o \in {"ok", "error", "throws"} : InsertAnswer(t, o)
  \/ Len(tasks) < MaxTasks /\ signOut("a1")
  \/ \E t \in 1..MaxTasks, o \in {"ok", "error", "throws"} : SignOutAnswer(t, o)
  \/ \E err \in BOOLEAN : FetchReturn("a1", err)

SpecAuth == InitAuth /\ [][NextAuth]_vars

\* the first sign-in of a user who has no profiles row, with a store that
\* answers every select and refuses an insert only for an id that has a row
InitFirstSignIn == InitAuth /\ db.profiles["a1"] = NoProfile

NextFirstSignIn ==
  \/ \E t \in 1..MaxTasks : SessionAnswer(t, "user")
  \/ Len(tasks) < MaxTasks /\ SignedIn("a1")
  \/ Len(tasks) < MaxTasks /\ refreshProfile("a1")
  \/ \E t \in 1..MaxTasks : SelectAnswer(t, "data")
  \/ \E t \in 1..MaxTasks : ClockBelow(WideTime) /\ GetUserAnswer(t, "a1")
  \/ \E t \in 1..MaxTasks :
       /\ t \in 1..Len(tasks) /\ tasks[t].stage = "insert"
       /\ IF db.profiles[tasks[t].basic.id] = NoProfile
          THEN InsertAnswer(t, "ok")
          ELSE InsertAnswer(t, "error")

SpecFirstSignIn == InitFirstSignIn /\ [][NextFirstSignIn]_vars

\* the handlers of one admin called with any request id, stored or not
NextNotFound ==
  \/ FormNext(Forms, MaxRequests, MaxCalls)
  \/ \E err \in BOOLEAN : FetchReturn("a1", err)
  \/ \E id \in 1..(MaxRequests + 1) :
        CallsBelow(WideCalls) /\ ClockBelow(WideTime)
        /\ handleApprove("a1", id, user["a1"])
  \/ \E id \in 1..(MaxRequests + 1), a \in PromptAnswers :
        CallsBelow(WideCalls) /\ handleReject("a1", id, a)
  \/ \E c \in 1..WideCalls, err \in BOOLEAN : DecideResolve(c, err)

SpecNotFound == Init /\ [][NextNotFound]_vars

(***************************************************************************)
(* Vocabulary of the properties                                            *)
(***************************************************************************)
Rows == db.leave_requests
RowIds == 1..Len(Rows)

\* the ledger row a request is charged to
RowKey(row) == BalanceKey(row.employee_id, row.leave_type, YearOf(row.start_date))

\* the step is the store answering decide call c (without error if ~err)
\* and its handler resuming
Decides(c, err) == DecideResolve(c, err)

DecideAlerts == {AlertApproveError, AlertRejectError}

\* total_days of the approved requests charged to ledger row k
RECURSIVE SumApproved(_, _)
SumApproved(k, n) ==
  IF n = 0 THEN 0
  ELSE SumApproved(k, n - 1)
       + (IF Rows[n].status = "approved" /\ RowKey(Rows[n]) = k
          THEN Rows[n].total_days ELSE 0)

\* a reason that is absent, empty or only white space, character by character
IsBlankReason(a) == a = NullStr \/ \A i \in 1..Len(a) : a[i] = Blank

\* the calendar, one day at a time
IsLeap(y) == (y % 4 = 0 /\ y % 100 # 0) \/ y % 400 = 0
DaysIn(y, m) ==
  IF m = 2 THEN (IF IsLeap(y) THEN 29 ELSE 28)
  ELSE IF m \in {4, 6, 9, 11} THEN 30 ELSE 31
NextDay(date) ==
  IF date[3] < DaysIn(date[1], date[2]) THEN <<date[1], date[2], date[3] + 1>>
  ELSE IF date[2] < 12 THEN <<date[1], date[2] + 1, 1>>
  ELSE <<date[1] + 1, 1, 1>>
\* start_date <= end_date, as the ISO strings compare
DateLE(a, b) ==
  \/ a[1] < b[1]
  \/ a[1] = b[1] /\ a[2] < b[2]
  \/ a[1] = b[1] /\ a[2] = b[2] /\ a[3] <= b[3]
\* whole days from a to b, for a <= b
RECURSIVE DaysBetween(_, _)
DaysBetween(a, b) == IF a = b THEN 0 ELSE 1 + DaysBetween(NextDay(a), b)

(***************************************************************************)
(* C1 to C3: the status state machine                                      *)
(***************************************************************************)
\* C1: a request whose stored status is approved or rejected keeps that
\* status in every later step, whatever approve or reject call is answered.
C1_TerminalStatusKept ==
  [][\A i \in RowIds :
       Rows[i].status # "pending" =>
         db'.leave_requests[i].status = Rows[i].status]_vars

\* C2: of two decide calls in flight together on one request, issued from
\* lists that both show it pending, at most one writes: the call that is
\* answered after the other was applied changes nothing in the store.
C2_OneOfTwoConcurrentWrites ==
  [][\A c \in 1..WideCalls, err \in BOOLEAN :
       (Decides(c, err) /\ calls[c].raced) => db' = db]_vars

\* C3: a decide call answered when the request is no longer pending is
\* reported as an error and leaves the request and every ledger row as
\* they were.
C3_SecondDecideRefused ==
  [][\A c \in 1..WideCalls, err \in BOOLEAN :
       (Decides(c, err) /\ Rows[calls[c].id].status # "pending") =>
         (db' = db /\ alert' \in DecideAlerts)]_vars

(***************************************************************************)
(* C4 to C7: the ledger                                                    *)
(***************************************************************************)
\* C4: every approved request has its total_days debited on its ledger
\* row: the row exists and its used_days grew by at least that much.
C4_ApprovedImpliesDebited ==
  \A i \in RowIds :
    Rows[i].status = "approved" =>
      /\ RowKey(Rows[i]) \in DOMAIN db.leave_balances
      /\ db.leave_balances[RowKey(Rows[i])].used_days
           >= InitBalances[RowKey(Rows[i])].used_days + Rows[i].total_days

\* C5: an approve of a pending request whose total_days exceeds the
\* remaining_days of its ledger row leaves the store as it was (the
\* request pending, the ledger unchanged) and reports an error.
C5_InsufficientBalanceRefused ==
  [][\A c \in 1..WideCalls, err \in BOOLEAN :
       ( /\ Decides(c, err)
         /\ calls[c].kind = "approve"
         /\ Rows[calls[c].id].status = "pending"
         /\ Rows[calls[c].id].total_days
              > db.leave_balances[RowKey(Rows[calls[c].id])].remaining_days )
       => (db' = db /\ alert' = AlertApproveError)]_vars

\* C6: a step that turns a request from pending to approved adds its
\* total_days to used_days of its ledger row and takes them from
\* remaining_days.
C6_ApproveDebitsLedger ==
  [][\A i \in RowIds :
       (Rows[i].status = "pending" /\ db'.leave_requests[i].status = "approved")
       => LET k == RowKey(Rows[i])
          IN  /\ db'.leave_balances[k].used_days
                   = db.leave_balances[k].used_days + Rows[i].total_days
              /\ db'.leave_balances[k].remaining_days
                   = db.leave_balances[k].remaining_days - Rows[i].total_days]_vars

\* C7: no ledger row has negative remaining_days, and the total_days of
\* the approved requests charged to a row never exceed its total_days.
C7_NoOverdraft ==
  \A k \in DOMAIN db.leave_balances :
    /\ db.leave_balances[k].remaining_days >= 0
    /\ SumApproved(k, Len(Rows)) <= db.leave_balances[k].total_days

(***************************************************************************)
(* C8, C9: reject                                                          *)
(***************************************************************************)
\* C8: a reject whose reason is absent, empty or only white space issues no
\* store call and leaves the store as it was; when handleReject is entered
\* it alerts that a reason is required.
C8_RejectNeedsReason ==
  [][\A s \in Sessions, id \in 1..WideRequests, a \in PromptAnswers :
       IsBlankReason(a) =>
         /\ RejectClick(s, id, a) =>
              /\ calls' = calls /\ db' = db
              /\ Truthy(a) => alert' = AlertMissingReason
         /\ handleReject(s, id, a) =>
              (calls' = calls /\ db' = db /\ alert' = AlertMissingReason)]_vars

\* a blank reason was refused and the request is still pending
C8_Witness ==
  /\ alert = AlertMissingReason
  /\ \E i \in RowIds : Rows[i].status = "pending"
  /\ \E s \in Sessions : ButtonsEnabled(s, 1)

\* C9: no step of a reject (the click, handleReject, the store answering
\* the update with or without error, the handler resuming) changes a
\* ledger row.
C9_RejectLeavesLedger ==
  [][/\ \A s \in Sessions, id \in 1..WideRequests, a \in PromptAnswers :
          RejectClick(s, id, a) => db'.leave_balances = db.leave_balances
     /\ \A c \in 1..WideCalls, err \in BOOLEAN :
          (Decides(c, err) /\ calls[c].kind = "reject")
            => db'.leave_balances = db.leave_balances]_vars

\* a reject was applied by the store
C9_Witness ==
  \E i \in RowIds :
    /\ Rows[i].status = "rejected"
    /\ Rows[i].rejection_reason = <<"n", "o">>
    /\ db.leave_balances = InitBalances

(***************************************************************************)
(* C10: total_days                                                         *)
(***************************************************************************)
\* C10: every persisted request has start_date <= end_date and total_days
\* equal to the whole days from start_date to end_date plus 1; a submit
\* with start_date > end_date shows the invalid-range message and issues
\* no insert.
C10_TotalDays ==
  /\ [](\A i \in RowIds :
          /\ DateLE(Rows[i].start_date, Rows[i].end_date)
          /\ Rows[i].total_days
               = DaysBetween(Rows[i].start_date, Rows[i].end_date) + 1)
  /\ [][( /\ handleSubmit
          /\ formData.start_date # EmptyDate /\ formData.end_date # EmptyDate
          /\ ~DateLE(formData.start_date, formData.end_date) )
        => (message' = MsgInvalidRange /\ calls' = calls /\ db' = db)]_vars

\* a same-day request is persisted with total_days = 1
C10_Witness ==
  \E i \in RowIds :
    /\ Rows[i].start_date = Rows[i].end_date
    /\ Rows[i].total_days = 1

(***************************************************************************)
(* C11, C12: what a submission persists                                    *)
(***************************************************************************)
\* C11: every persisted request has a non-empty reason, and a submit whose
\* reason is empty after trimming issues no insert.
C11_ReasonNonEmpty ==
  /\ [](\A i \in RowIds : Rows[i].reason # EmptyStr)
  /\ [][(handleSubmit /\ Trim(formData.reason) = EmptyStr)
          => (calls' = calls /\ db' = db)]_vars

\* C12: a row that a step adds to leave_requests has status pending and the
\* employee_id of the signed-in user of the form, and so has the payload of
\* every insert in flight.
C12_PendingAndOwn ==
  /\ [](\A c \in InsertsInFlight :
          /\ calls[c].payload.status = "pending"
          /\ calls[c].payload.employee_id = user[calls[c].session])
  /\ [][\A i \in 1..Len(db'.leave_requests) :
          i > Len(Rows) =>
            /\ db'.leave_requests[i].status = "pending"
            /\ db'.leave_requests[i].employee_id = user[Employee]]_vars

\* the employee's submission is stored, pending and under their own id
C12_Witness ==
  /\ message = MsgSubmitted
  /\ \E i \in RowIds :
       Rows[i].status = "pending" /\ Rows[i].employee_id = user[Employee]

C16_RejectionReasonIffRejected ==
  \A i \in RowIds :
    (Rows[i].rejection_reason # NullStr) <=> (Rows[i].status = "rejected")

\* C17: a stored request has approved_by exactly when its status is
\* approved, and then it names an admin session.
C17_ApprovedByIffApproved ==
  \A i \in RowIds :
    /\ (Rows[i].approved_by # Null) <=> (Rows[i].status = "approved")
    /\ Rows[i].status = "approved" => Rows[i].approved_by \in Sessions

\* C18: a stored request has a decision timestamp (approved_at) exactly
\* when its status is not pending.
C18_DecidedAtIffDecided ==
  \A i \in RowIds :
    (Rows[i].approved_at # NoTime) <=> (Rows[i].status # "pending")

\* C19: every step keeps each stored request in place with its id,
\* employee_id, leave_type, start_date, end_date, total_days and reason.
C19_RequestFrame ==
  [][/\ Len(db'.leave_requests) >= Len(Rows)
     /\ \A i \in RowIds :
          LET old == Rows[i]
              new == db'.leave_requests[i]
          IN  /\ new.id = old.id
              /\ new.employee_id = old.employee_id
              /\ new.leave_type = old.leave_type
              /\ new.start_date = old.start_date
              /\ new.end_date = old.end_date
              /\ new.total_days = old.total_days
              /\ new.reason = old.reason]_vars

\* an approved request still carries what was submitted
C19_Witness ==
  \E i \in RowIds :
    /\ Rows[i].status = "approved" /\ Rows[i].approved_at # NoTime
    /\ Rows[i].employee_id = Employee
    /\ Rows[i].reason = <<"t", "r", "i", "p">>
    /\ Rows[i].total_days = calculateDays(Rows[i].start_date, Rows[i].end_date)

(***************************************************************************)
(* C20: notifications                                                      *)
(***************************************************************************)
\* the notifications table gains a row of this type for the employee of
\* request row, naming the request
Notified(type, row) ==
  \E n \in (Len(db.notifications) + 1)..Len(db'.notifications) :
    /\ db'.notifications[n].type = type
    /\ db'.notifications[n].user_id = row.employee_id
    /\ db'.notifications[n].related_id = row.id

\* C20: a step that stores a new request, or turns a stored request to
\* approved or to rejected, adds a notification of that kind for the
\* request's employee, naming the request.
C20_TransitionsNotify ==
  [][/\ \A i \in 1..Len(db'.leave_requests) :
          i > Len(Rows) => Notified("leave_request", db'.leave_requests[i])
     /\ \A i \in RowIds :
          /\ (Rows[i].status # "approved"
                /\ db'.leave_requests[i].status = "approved")
               => Notified("leave_approved", Rows[i])
          /\ (Rows[i].status # "rejected"
                /\ db'.leave_requests[i].status = "rejected")
               => Notified("leave_rejected", Rows[i])]_vars

(***************************************************************************)
(* C13, C14: who reaches the store                                         *)
(***************************************************************************)
\* the step issues a store call for browser b: a select of the list, or an
\* insert, approve or reject
Issues(b) ==
  \/ b \in Sessions /\ fetching'[b] /\ ~fetching[b]
  \/ /\ Len(calls') > Len(calls)
     /\ calls'[Len(calls')].session = b

C14_AdminOnly ==
  [][\A s \in Sessions :
       Issues(s) => (profile'[s] # NoProfile
                      /\ profile'[s].user_role = "admin")]_vars

(***************************************************************************)
(* C21, C26: the timeout of handleSubmit                                   *)
(***************************************************************************)
\* C21: an insert whose 30 second timer has fired, so that the timeout
\* message was shown, is never persisted: the store answering it leaves
\* the store as it was.
C21_TimedOutNeverPersisted ==
  [][\A c \in 1..MaxCalls, err \in BOOLEAN :
       (SubmitResolve(c, err) /\ calls[c].timer = "fired") => db' = db]_vars

\* C26: while an insert of handleSubmit is outstanding loading is true,
\* and at most one insert is outstanding.
C26_LoadingWhileInsert ==
  /\ InsertsInFlight # {} => loading
  /\ Cardinality(InsertsInFlight) <= 1

(***************************************************************************)
(* C25: actionLoading                                                      *)
(***************************************************************************)
\* C25: while an approve or reject of request r issued from a list is in
\* flight, actionLoading of that list is r, so that the buttons of r are
\* disabled there.
C25_ButtonsDisabledInFlight ==
  \A c \in 1..Len(calls) :
    calls[c].kind \in {"approve", "reject"} =>
      /\ actionLoading[calls[c].session] = calls[c].id
      /\ ~ButtonsEnabled(calls[c].session, calls[c].id)

(***************************************************************************)
(* C27: the loading flag of EmployeeDashboard                              *)
(***************************************************************************)
\* C27: once the AuthProvider of a signed-in employee has loaded
\* (loading = false) and Dashboard renders EmployeeDashboard, the
\* loading flag of EmployeeDashboard eventually becomes false, also when
\* the profile is null.
C27_DashboardLeavesLoading ==
  EmployeeMounted(Employee) ~> ~dashLoading

(***************************************************************************)
(* C22, C23, C24, C29, C30: AuthProvider                                   *)
(***************************************************************************)
\* C22: the context profile of a browser is non-null only if it equals the
\* row stored in profiles under its id: no failure of the lookup or of the
\* insert puts a profile made up in memory into the context.
C22_ProfileIsStoredRow ==
  \A b \in Browsers :
    profile[b] # NoProfile => profile[b] = db.profiles[profile[b].id]

\* C23: in every state of AuthProvider, user = null implies profile = null.
C23_NoUserNoProfile ==
  \A b \in Browsers : user[b] = Null => profile[b] = NoProfile

\* C24: every basicProfile that createBasicProfile makes has the role
\* employee, and isAdmin holds only of a profile that is a stored profiles
\* row whose role is admin and that the client did not make.
C24_ClientProfileNeverAdmin ==
  /\ \A t \in 1..Len(tasks) :
       tasks[t].basic # NoProfile => tasks[t].basic.user_role = "employee"
  /\ \A b \in Browsers :
       isAdmin(b) => /\ db.profiles[profile[b].id] = profile[b]
                     /\ profile[b] = ProfileOf(b)

\* a profile that the client made itself is in the context, without admin
\* capability
C24_Witness ==
  /\ profile["a1"] # NoProfile
  /\ profile["a1"] = createBasicProfile("a1", 1)
  /\ ~isAdmin("a1")
  /\ page["a1"] = "dashboard"

\* C29: once the fetchProfile calls of the first sign-in of a user without
\* a profiles row have all resolved, the context profile is the one row
\* persisted for that user, employee_id included.
C29_OneProfileAfterRace ==
  \A b \in Browsers :
    (/\ tasks = << >>
     /\ user[b] # Null
     /\ profile[b] # NoProfile
     /\ db.profiles[user[b]] # NoProfile)
      => profile[b] = db.profiles[user[b]]

\* C30: when supabase.auth.signOut is answered without error, user and
\* profile are set to null; when it is answered with an error or throws,
\* user and profile are left as they were and signOut returns the error.
C30_SignOutClearsOnSuccessOnly ==
  [][\A t \in 1..MaxTasks, o \in {"ok", "error", "throws"} :
       SignOutAnswer(t, o) =>
         \A b \in {tasks[t].browser} :
           IF o = "ok"
           THEN /\ user'[b] = Null
                /\ profile'[b] = NoProfile
                /\ returned'[b] = "ok"
           ELSE /\ user' = user
                /\ profile' = profile
                /\ returned'[b] = "error"]_vars

\* a signOut that failed has returned its error and left a signed-in user
\* and their profile in place
C30_Witness ==
  /\ returned["a1"] = "error"
  /\ user["a1"] = "a1"
  /\ profile["a1"] # NoProfile

(***************************************************************************)
(* C28: toggleEmployeeStatus                                               *)
(***************************************************************************)
\* C28: when the store applies the update of a toggle, the stored
\* is_active of the employee is the negation of the value stored just
\* before.
C28_ToggleFlips ==
  [][\A t \in 1..WideCalls :
       ToggleResolve(t, FALSE) =>
         db'.profiles[toggles[t].id].is_active
           = ~db.profiles[toggles[t].id].is_active]_vars

====
